---- MODULE Spec2Model ----
(***************************************************************************)
(* The chunked-upload engine of src/src/uploader.ts (class Uploader) as a  *)
(* state machine.                                                          *)
(*                                                                         *)
(* One step of the model is one JavaScript macrotask: a call of the public *)
(* API (upload, pause, resume, cancel) or the arrival of one I/O result    *)
(* (file read, HTTP response, timer), together with every promise          *)
(* continuation and event listener that runs before the next macrotask.    *)
(* The one exception is the rejection of a transfer whose AbortController  *)
(* was aborted: the caller may call further API methods synchronously      *)
(* after pause()/cancel(), so that rejection is a step of its own          *)
(* (PutAborted), and no I/O result is delivered while one is outstanding.  *)
(*                                                                         *)
(* Environment: at most one upload() call is in progress at a time, and    *)
(* upload() is called again only when no chunk work of the earlier call is *)
(* left; the caller has an `error` listener registered.                    *)
(***************************************************************************)
EXTENDS Integers, Sequences, FiniteSets, TLC

\* ------------------------------------------------------------------ bounds
\* largest source file size, in bytes
MaxSize == 3
\* options.concurrency
Concurrency == 2
\* options.retryTimes
RetryTimes == 1
\* largest options.pollMaxTimes
MaxPollTimes == 2
\* number of cancel() calls of the caller
MaxCancelCalls == 2
\* number of upload() calls of the caller
MaxUploadCalls == 1
\* largest file size and slice size the chunk planning is checked for on its own
MaxPlanSize == 12
MaxPlanSliceSize == 8
\* largest number of components of a path given to mkdirRecursive
MaxPathLen == 3
\* largest number of further pages a file list has
MaxPages == 2

\* ------------------------------------------------------------------ values
\* smallest sliceSize of a create-task response, in bytes
SliceSize == 1
\* the sliceSize values a create-task response may carry
SliceSizes == {SliceSize, 2 * SliceSize}
NoTarget == "no-target"
Targets == {NoTarget}
Basename == "file.mp4"
PreuploadID == "P1"
NoFileID == "no-file-id"
CreateFileIDs == {NoFileID, "F1"}
\* fileID of the finish-upload response and of the check-merge responses
FinishFileID == "F2"

TerminalStatus == {"completed", "error", "cancel"}

\* A directory id stands for the place of the directory: the sequence of the path
\* components (by their position in the path) from the root down to it.
RootID == <<>>

\* a Client on which mkdirRecursive has not been called
IdleClient ==
  [pc |-> "idle", paths |-> 0, index |-> 0, currentID |-> RootID, created |-> {},
   lastFileId |-> 0]

NoOutcome == [kind |-> "none", fileId |-> "-", filename |-> "-"]
UndefinedOutcome == [kind |-> "undefined", fileId |-> "-", filename |-> "-"]
RejectedOutcome == [kind |-> "rejected", fileId |-> "-", filename |-> "-"]

\* what one upload() call has done so far: the requests it issued, the create-task
\* response it got (reuse, fileID, sliceSize), what the server said about the merge,
\* and whether a failed chunk attempt was retried with no `debug` event emitted
NoCall ==
  [url |-> FALSE, put |-> FALSE, uploading |-> FALSE, finish |-> FALSE,
   checks |-> 0, reuse |-> FALSE, fileID |-> NoFileID, sliceSize |-> 0,
   asyncPending |-> FALSE, merged |-> FALSE, checkFailed |-> FALSE,
   silentRetry |-> FALSE]

VARIABLES
  status,       \* Uploader.status
  size,         \* Uploader.size
  pollMaxTimes, \* Uploader.options.pollMaxTimes
  pc,           \* where the upload() call is: init, create, chunks, finish, poll, pollwait, done
  target,       \* the argument of the upload() call
  outcome,      \* how the upload() call settled
  chunkTasks,   \* Uploader.chunkTasks: sequence of [start, chunkSize, status, aborted]
  step,         \* per chunk task, where its uploadChunk run is: none, read, url, put, delay
  retryCount,   \* per chunk task, the retryCount argument of its uploadChunk run
  sent,         \* per chunk task, progressEvent.loaded of its transfer in flight
  queue,        \* the PQueue's waiting jobs (chunk numbers, first in first out)
  isPaused,     \* the PQueue's paused flag
  parts,        \* the parts list of uploadChunks, as the count of entries per part number
  transferred,  \* part numbers whose byte transfer succeeded in this upload pass
  progress,     \* Uploader.progress
  pollCount,    \* pollCount of pollUploadStatus
  emitted,      \* how many `init` progress / start / completed / error / cancel
                \* events were emitted
  call,         \* what the upload() call in progress has requested so far
  uploadCalls,  \* number of upload() calls made
  client        \* a Client and its mkdirRecursive call: where the call is (idle,
                \* mkdir, list, returned, thrown), the number of path components,
                \* the loop's component, currentID, the directories created, and
                \* how many pages of the file list were asked for so far

vars ==
  <<status, size, pollMaxTimes, pc, target, outcome, chunkTasks, step, retryCount,
    sent, queue, isPaused, parts, transferred, progress, pollCount, emitted, call,
    uploadCalls, client>>

\* ------------------------------------------------------------------ helpers
Min(a, b) == IF a < b THEN a ELSE b

\* Math.ceil(size / chunkSize)
CeilDiv(a, b) == (a + b - 1) \div b

MaxChunks == CeilDiv(MaxSize, SliceSize)

MaxSliceSize == 2 * SliceSize

RECURSIVE SumTo(_, _)
SumTo(f, n) == IF n = 0 THEN 0 ELSE f[n] + SumTo(f, n - 1)

\* parts.length
PartsLength == SumTo(parts, MaxChunks)

\* Object.values(this.progress).reduce((a, b) => a + b, 0)
TotalLoaded(p) == SumTo(p, MaxChunks)

Chunks == DOMAIN chunkTasks

\* the PQueue's count of running jobs
PendingCount(st) == Cardinality({k \in DOMAIN st : st[k] # "none"})

\* a transfer whose signal was aborted has not rejected yet
AbortOutstanding ==
  \E k \in Chunks : step[k] = "put" /\ chunkTasks[k].aborted

\* ------------------------------------------------------------------ chunk planning
\* PlanChunks that gives every chunk the full slice length
PlanChunksFullSlices(sz, sliceSize) ==
  [i \in 1..CeilDiv(sz, sliceSize) |->
     [start |-> (i - 1) * sliceSize,
      chunkSize |-> sliceSize,
      status |-> "pending",
      aborted |-> FALSE]]

\* the loop of uploadChunks that builds the chunk tasks
PlanChunks(sz, sliceSize) ==
  [i \in 1..CeilDiv(sz, sliceSize) |->
     [start |-> (i - 1) * sliceSize,
      chunkSize |-> Min((i - 1) * sliceSize + sliceSize, sz) - (i - 1) * sliceSize,
      status |-> "pending",
      aborted |-> FALSE]]

\* ------------------------------------------------------------------ the queue
\* The scheduler state the PQueue works on, as one record.
Sched ==
  [queue |-> queue, isPaused |-> isPaused, chunkTasks |-> chunkTasks,
   step |-> step, retryCount |-> retryCount, sent |-> sent]

\* the start of uploadChunk(task): the task is marked running, the read begins
RunTask(s, k) ==
  [s EXCEPT !.chunkTasks[k].status = "running",
            !.step[k] = "read"]

\* CanStartAnother without the concurrency limit
CanStartAnotherUnbounded(s) ==
  /\ s.queue # <<>>
  /\ ~s.isPaused

\* PQueue: may another job start
CanStartAnother(s) ==
  /\ s.queue # <<>>
  /\ ~s.isPaused
  /\ PendingCount(s.step) < Concurrency

\* PQueue._tryToStartAnother: start the first waiting job if the queue is not
\* paused and fewer than `concurrency` jobs run; job = () => this.uploadChunk(task)
TryToStartAnother(s) ==
  IF CanStartAnother(s)
  THEN RunTask([s EXCEPT !.queue = Tail(s.queue),
                         !.retryCount[Head(s.queue)] = 0], Head(s.queue))
  ELSE s

\* PQueue emits idle from _tryToStartAnother when nothing waits and nothing runs
IsIdle(s) == s.queue = <<>> /\ PendingCount(s.step) = 0

\* PQueue.add(job): enqueue, then try to start one
Add(s, k) == TryToStartAnother([s EXCEPT !.queue = Append(s.queue, k)])

RECURSIVE AddAll(_, _)
AddAll(s, ks) == IF ks = <<>> THEN s ELSE AddAll(Add(s, Head(ks)), Tail(ks))

\* PQueue._processQueue: start jobs while one can be started
RECURSIVE ProcessQueue(_)
ProcessQueue(s) == IF CanStartAnother(s) THEN ProcessQueue(TryToStartAnother(s)) ELSE s

\* PQueue.start()
Start(s) == IF s.isPaused THEN ProcessQueue([s EXCEPT !.isPaused = FALSE]) ELSE s

\* taskClear: queue.clear(), and every task's controller is aborted
TaskClear(s) ==
  [s EXCEPT !.queue = <<>>,
            !.chunkTasks = [k \in DOMAIN s.chunkTasks |->
                              [s.chunkTasks[k] EXCEPT !.aborted = TRUE]]]

SetSched(s) ==
  /\ queue' = s.queue
  /\ isPaused' = s.isPaused
  /\ chunkTasks' = s.chunkTasks
  /\ step' = s.step
  /\ retryCount' = s.retryCount
  /\ sent' = s.sent

\* the ascending sequence of the members of a set of chunk numbers
RECURSIVE Ascending(_)
Ascending(S) ==
  IF S = {} THEN <<>>
  ELSE LET m == CHOOSE x \in S : \A y \in S : x <= y
       IN <<m>> \o Ascending(S \ {m})

\* ------------------------------------------------------------------ upload(): its tail
\* fileID || preuploadID
FileIdOr(fileID, preuploadID) == IF fileID # NoFileID THEN fileID ELSE preuploadID

\* target || this.filename
FilenameOr(t, filename) == IF t # NoTarget THEN t ELSE filename

\* CompletedInfo that always reports the preupload identifier
CompletedInfoPreupload(fileID, t) ==
  [kind |-> "result", fileId |-> PreuploadID, filename |-> FilenameOr(t, Basename)]

\* completedInfo of upload()
CompletedInfo(fileID, t) ==
  [kind |-> "result", fileId |-> FileIdOr(fileID, PreuploadID),
   filename |-> FilenameOr(t, Basename)]

\* upload(): progress `complete`, the completed event, status completed, return
Complete ==
  /\ emitted' = [emitted EXCEPT !.completed = @ + 1]
  /\ status' = "completed"
  /\ pc' = "done"
  /\ outcome' = CompletedInfo(call.fileID, target)

\* Swallowed that also swallows in status paused
SwallowedWhenPaused(st) == st \in {"cancel", "paused"}

\* the catch block of upload(): is the exception swallowed
Swallowed(st) == st = "cancel"

\* the catch block of upload(), entered with the session status st
Catch(st) ==
  IF Swallowed(st)
  THEN /\ pc' = "done"
       /\ outcome' = UndefinedOutcome
       /\ status' = st
       /\ UNCHANGED emitted
  ELSE /\ emitted' = [emitted EXCEPT !.error = @ + 1]
       /\ status' = "error"
       /\ pc' = "done"
       /\ outcome' = RejectedOutcome

\* IdleResolve that reports success as soon as some part completed
IdleResolveSomePart(partsLength, nTasks, totalChunks) ==
  IF partsLength = 0 /\ nTasks > 0 THEN "false" ELSE "true"

\* the idle listener of uploadChunks: what the promise resolves to
IdleResolve(partsLength, nTasks, totalChunks) ==
  IF partsLength = 0 /\ nTasks > 0 THEN "false"
  ELSE IF partsLength = totalChunks THEN "true"
  ELSE "false"

\* upload() after `await this.uploadChunks(...)` settled as o (true, false, reject),
\* or nothing when the promise is still pending; st is the session status then
AfterChunks(o, st) ==
  IF o = "pending"
  THEN /\ status' = st
       /\ UNCHANGED <<pc, outcome, emitted, call>>
  ELSE IF o = "true"
  THEN /\ pc' = "finish"
       /\ call' = [call EXCEPT !.finish = TRUE]
       /\ status' = st
       /\ UNCHANGED <<outcome, emitted>>
  ELSE IF o = "false" /\ st # "running"
  THEN /\ pc' = "done"
       /\ outcome' = UndefinedOutcome
       /\ status' = st
       /\ UNCHANGED <<emitted, call>>
  ELSE /\ Catch(st)
       /\ UNCHANGED call

\* ------------------------------------------------------------------ one job of the queue ends
\* The job of chunk k ends with r: "part" (uploadChunk returned {partNumber}),
\* "undefined" (it returned nothing: aborted) or "throw" (retries exhausted).
\* PQueue emits completed / error, then _next() frees the slot and tries to start
\* another job, emitting idle when nothing is left.
AfterListeners(s, k, r) ==
  IF r = "part" THEN [s EXCEPT !.chunkTasks[k].status = "completed"]
  ELSE IF r = "throw" THEN TaskClear(s)
  ELSE s

EndedStatus(r) == IF r = "throw" THEN "error" ELSE IF r = "undefined" THEN "abort" ELSE "running"

Settle(k, r) ==
  LET s0 == [Sched EXCEPT !.step[k] = "none", !.retryCount[k] = 0, !.sent[k] = 0,
                          !.chunkTasks[k].status = EndedStatus(r)]
      s1 == AfterListeners(s0, k, r)
      newParts == IF r = "part" THEN [parts EXCEPT ![k] = @ + 1] ELSE parts
      o == IF pc # "chunks" THEN "pending"
           ELSE IF r = "throw" THEN "reject"
           ELSE IF IsIdle(s1)
                THEN IdleResolve(SumTo(newParts, MaxChunks), Len(chunkTasks), Len(chunkTasks))
                ELSE "pending"
  IN /\ SetSched(TryToStartAnother(s1))
     /\ parts' = newParts
     /\ AfterChunks(o, status)

\* the catch block of uploadChunk for an error that is not a cancellation
Retries(rc) == rc < RetryTimes

\* ------------------------------------------------------------------ the state after construction
Init ==
  /\ status = "pending"
  /\ size \in 0..MaxSize
  /\ pollMaxTimes \in {0, MaxPollTimes}
  /\ pc = "init"
  /\ target = NoTarget
  /\ outcome = NoOutcome
  /\ chunkTasks = <<>>
  /\ step = <<>>
  /\ retryCount = <<>>
  /\ sent = <<>>
  /\ queue = <<>>
  /\ isPaused = FALSE
  /\ parts = [k \in 1..MaxChunks |-> 0]
  /\ transferred = {}
  /\ progress = [k \in 1..MaxChunks |-> 0]
  /\ pollCount = 0
  /\ emitted = [progressInit |-> 1, start |-> 0, completed |-> 0, error |-> 0,
                cancel |-> 0]
  /\ call = NoCall
  /\ uploadCalls = 0
  /\ client = IdleClient

schedVars == <<queue, isPaused, chunkTasks, step, retryCount, sent>>
callerVars == <<size, pollMaxTimes, uploadCalls, target, client>>
uploadVars == <<pc, outcome, emitted, status>>

\* ------------------------------------------------------------------ upload()
\* upload(target) up to its first await: status running, start, createUploadTask
Upload(t) ==
  /\ uploadCalls < MaxUploadCalls
  /\ pc \in {"init", "done"}
  /\ queue = <<>>
  /\ PendingCount(step) = 0
  /\ \A k \in Chunks : chunkTasks[k].status # "abort"
  /\ status' = "running"
  /\ emitted' = [emitted EXCEPT !.start = @ + 1]
  /\ pc' = "create"
  /\ target' = t
  /\ outcome' = NoOutcome
  /\ call' = NoCall
  /\ uploadCalls' = uploadCalls + 1
  /\ UNCHANGED <<schedVars, size, pollMaxTimes, parts, transferred,
                 progress, pollCount, client>>

\* the create-task response arrives: reuse, or plan the chunks and queue them
CreateDone(reuse, fileID, sliceSize) ==
  /\ pc = "create"
  /\ ~AbortOutstanding
  /\ IF reuse
     THEN /\ emitted' = [emitted EXCEPT !.completed = @ + 1]
          /\ status' = "completed"
          /\ pc' = "done"
          /\ outcome' = CompletedInfo(fileID, target)
          /\ call' = [call EXCEPT !.reuse = TRUE, !.fileID = fileID,
                                  !.sliceSize = sliceSize]
          /\ UNCHANGED <<schedVars, parts, transferred>>
     ELSE LET tasks == PlanChunks(size, sliceSize)
              s0 == [Sched EXCEPT !.chunkTasks = tasks,
                                  !.step = [k \in DOMAIN tasks |-> "none"],
                                  !.retryCount = [k \in DOMAIN tasks |-> 0],
                                  !.sent = [k \in DOMAIN tasks |-> 0]]
          IN /\ SetSched(AddAll(s0, [k \in DOMAIN tasks |-> k]))
             /\ parts' = [k \in 1..MaxChunks |-> 0]
             /\ transferred' = {}
             /\ pc' = "chunks"
             /\ call' = [call EXCEPT !.fileID = fileID, !.sliceSize = sliceSize]
             /\ UNCHANGED <<status, outcome, emitted>>
  /\ UNCHANGED <<callerVars, progress, pollCount>>

\* md5File or the create-task request fails
CreateFail ==
  /\ pc = "create"
  /\ ~AbortOutstanding
  /\ Catch(status)
  /\ UNCHANGED <<callerVars, schedVars, parts, transferred, progress, pollCount, call>>

\* ------------------------------------------------------------------ uploadChunk(task)
\* readChunk resolved: the destination request is sent
ReadDone(k) ==
  /\ k \in Chunks
  /\ step[k] = "read"
  /\ ~AbortOutstanding
  /\ step' = [step EXCEPT ![k] = "url"]
  /\ call' = [call EXCEPT !.url = TRUE]
  /\ UNCHANGED <<callerVars, uploadVars, queue, isPaused, chunkTasks, retryCount,
                 sent, parts, transferred, progress, pollCount>>

\* an attempt of chunk k failed with an error that is not a cancellation; debug
\* tells whether the failing step emitted a `debug` event for it
Fail(k, debug) ==
  IF Retries(retryCount[k])
  THEN /\ step' = [step EXCEPT ![k] = "delay"]
       /\ sent' = [sent EXCEPT ![k] = 0]
       /\ call' = [call EXCEPT !.silentRetry = @ \/ ~debug]
       /\ UNCHANGED <<uploadVars, queue, isPaused, chunkTasks, retryCount, parts>>
  ELSE Settle(k, "throw")

\* readChunk rejects
ReadFail(k) ==
  /\ k \in Chunks
  /\ step[k] = "read"
  /\ ~AbortOutstanding
  /\ Fail(k, FALSE)
  /\ UNCHANGED <<callerVars, transferred, progress, pollCount>>

\* the destination arrived: axios.put starts, or throws at once on an aborted signal
UrlDone(k) ==
  /\ k \in Chunks
  /\ step[k] = "url"
  /\ ~AbortOutstanding
  /\ IF chunkTasks[k].aborted
     THEN /\ Settle(k, "undefined")
     ELSE /\ step' = [step EXCEPT ![k] = "put"]
          /\ call' = [call EXCEPT !.put = TRUE]
          /\ UNCHANGED <<uploadVars, queue, isPaused, chunkTasks, retryCount, sent,
                         parts>>
  /\ UNCHANGED <<callerVars, transferred, progress, pollCount>>

\* getChunkUploadUrl fails: it emits `debug` and rethrows
UrlFail(k) ==
  /\ k \in Chunks
  /\ step[k] = "url"
  /\ ~AbortOutstanding
  /\ Fail(k, TRUE)
  /\ UNCHANGED <<callerVars, transferred, progress, pollCount>>

\* UploadProgress that adds the reported bytes to the entry instead of replacing it
UploadProgressAdds(k, n) ==
  /\ k \in Chunks
  /\ step[k] = "put"
  /\ ~AbortOutstanding
  /\ n \in (sent[k] + 1)..chunkTasks[k].chunkSize
  /\ sent' = [sent EXCEPT ![k] = n]
  /\ progress' = [progress EXCEPT ![k] = @ + n]
  /\ call' = [call EXCEPT !.uploading = TRUE]
  /\ UNCHANGED <<callerVars, uploadVars, queue, isPaused, chunkTasks, step, retryCount,
                 parts, transferred, pollCount>>

\* onUploadProgress of the transfer of chunk k, with progressEvent.loaded = n (it
\* grows within one transfer)
UploadProgress(k, n) ==
  /\ k \in Chunks
  /\ step[k] = "put"
  /\ ~AbortOutstanding
  /\ n \in (sent[k] + 1)..chunkTasks[k].chunkSize
  /\ sent' = [sent EXCEPT ![k] = n]
  /\ progress' = [progress EXCEPT ![k] = n]
  /\ call' = [call EXCEPT !.uploading = TRUE]
  /\ UNCHANGED <<callerVars, uploadVars, queue, isPaused, chunkTasks, step, retryCount,
                 parts, transferred, pollCount>>

\* the transfer succeeded: uploadChunk returns {partNumber}
PutDone(k) ==
  /\ k \in Chunks
  /\ step[k] = "put"
  /\ ~AbortOutstanding
  /\ Settle(k, "part")
  /\ transferred' = transferred \cup {k}
  /\ UNCHANGED <<callerVars, progress, pollCount>>

\* axios.put rejects with an error that is not a cancellation
PutFail(k) ==
  /\ k \in Chunks
  /\ step[k] = "put"
  /\ ~AbortOutstanding
  /\ Fail(k, FALSE)
  /\ UNCHANGED <<callerVars, transferred, progress, pollCount>>

\* the transfer of an aborted signal rejects with a cancellation: status abort,
\* uploadChunk returns nothing; rejections arrive in the order of the aborts
PutAborted(k) ==
  /\ k \in Chunks
  /\ step[k] = "put"
  /\ chunkTasks[k].aborted
  /\ \A j \in Chunks : (step[j] = "put" /\ chunkTasks[j].aborted) => k <= j
  /\ Settle(k, "undefined")
  /\ UNCHANGED <<callerVars, transferred, progress, pollCount>>

\* the retry delay is over: uploadChunk(task, retryCount + 1)
RetryDelayDone(k) ==
  /\ k \in Chunks
  /\ step[k] = "delay"
  /\ ~AbortOutstanding
  /\ SetSched(RunTask([Sched EXCEPT !.retryCount[k] = @ + 1], k))
  /\ UNCHANGED <<callerVars, uploadVars, parts, transferred, progress, pollCount, call>>

\* ------------------------------------------------------------------ finishUpload, pollUploadStatus
\* pollUploadStatus: the head of its while loop, entered with pollCount = n
PollAgain(n) == n < pollMaxTimes

\* the finish-upload response arrives
FinishDone(asyncUpload, completed) ==
  /\ pc = "finish"
  /\ ~AbortOutstanding
  /\ IF asyncUpload /\ ~completed
     THEN IF PollAgain(0)
          THEN /\ pollCount' = 1
               /\ pc' = "poll"
               /\ call' = [call EXCEPT !.asyncPending = TRUE, !.checks = @ + 1]
               /\ UNCHANGED <<status, outcome, emitted>>
          ELSE /\ Complete
               /\ pollCount' = 0
               /\ call' = [call EXCEPT !.asyncPending = TRUE]
     ELSE /\ Complete
          /\ UNCHANGED <<pollCount, call>>
  /\ UNCHANGED <<callerVars, schedVars, parts, transferred, progress>>

FinishFail ==
  /\ pc = "finish"
  /\ ~AbortOutstanding
  /\ Catch(status)
  /\ UNCHANGED <<callerVars, schedVars, parts, transferred, progress, pollCount, call>>

\* pollUploadStatus: has the poll budget run out after pollCount checks
PollTimedOut(n) == n >= pollMaxTimes

\* a check-merge response arrives
CheckDone(completed) ==
  /\ pc = "poll"
  /\ ~AbortOutstanding
  /\ IF completed
     THEN /\ Complete
          /\ call' = [call EXCEPT !.merged = TRUE]
     ELSE IF PollTimedOut(pollCount)
     THEN /\ Catch(status)
          /\ UNCHANGED call
     ELSE /\ pc' = "pollwait"
          /\ UNCHANGED <<status, outcome, emitted, call>>
  /\ UNCHANGED <<callerVars, schedVars, parts, transferred, progress, pollCount>>

\* CheckFail that waits pollInterval and tries again
CheckFailRetries ==
  /\ pc = "poll"
  /\ ~AbortOutstanding
  /\ pc' = "pollwait"
  /\ call' = [call EXCEPT !.checkFailed = TRUE]
  /\ UNCHANGED <<callerVars, schedVars, status, outcome, emitted, parts, transferred,
                 progress, pollCount>>

\* a check-merge request fails: pollUploadStatus rethrows
CheckFail ==
  /\ pc = "poll"
  /\ ~AbortOutstanding
  /\ Catch(status)
  /\ call' = [call EXCEPT !.checkFailed = TRUE]
  /\ UNCHANGED <<callerVars, schedVars, parts, transferred, progress, pollCount>>

\* the pollInterval wait is over: the next round of the loop
PollWaitDone ==
  /\ pc = "pollwait"
  /\ ~AbortOutstanding
  /\ IF PollAgain(pollCount)
     THEN /\ pollCount' = pollCount + 1
          /\ pc' = "poll"
          /\ call' = [call EXCEPT !.checks = @ + 1]
          /\ UNCHANGED <<status, outcome, emitted>>
     ELSE /\ Complete
          /\ UNCHANGED <<pollCount, call>>
  /\ UNCHANGED <<callerVars, schedVars, parts, transferred, progress>>

\* ------------------------------------------------------------------ pause(), resume(), cancel()
\* PauseAborts that aborts the tasks still waiting in the queue instead
PauseAbortsPending(task) == task.status = "pending"

\* pause(): which tasks are aborted
PauseAborts(task) == task.status = "running"

Pause ==
  /\ status = "running"
  /\ status' = "paused"
  /\ isPaused' = TRUE
  /\ chunkTasks' = [k \in Chunks |->
                      IF PauseAborts(chunkTasks[k])
                      THEN [chunkTasks[k] EXCEPT !.aborted = TRUE]
                      ELSE chunkTasks[k]]
  /\ progress' = [k \in 1..MaxChunks |->
                    IF k \in Chunks /\ PauseAborts(chunkTasks[k]) THEN 0 ELSE progress[k]]
  /\ UNCHANGED <<callerVars, pc, outcome, emitted, queue, step, retryCount, sent,
                 parts, transferred, pollCount, call>>

\* ResumeSubmits that picks the tasks that never ran instead
ResumeSubmitsPending(task) == task.status = "pending"

\* resume(): which tasks are submitted again
ResumeSubmits(task) == task.status = "abort"

\* resume(): a fresh controller and status pending for task k, then queue.add
Resubmit(s, k) ==
  Add([s EXCEPT !.chunkTasks[k].aborted = FALSE, !.chunkTasks[k].status = "pending"], k)

RECURSIVE ResubmitAll(_, _)
ResubmitAll(s, ks) ==
  IF ks = <<>> THEN s ELSE ResubmitAll(Resubmit(s, Head(ks)), Tail(ks))

Resume ==
  /\ status = "paused"
  /\ LET abortedTasks == Ascending({k \in Chunks : ResumeSubmits(chunkTasks[k])})
         s1 == ResubmitAll(Sched, abortedTasks)
         o == IF pc = "chunks" /\ s1.isPaused /\ IsIdle(s1)
              THEN IdleResolve(PartsLength, Len(chunkTasks), Len(chunkTasks))
              ELSE "pending"
     IN /\ SetSched(Start(s1))
        /\ AfterChunks(o, "running")
  /\ UNCHANGED <<callerVars, parts, transferred, progress, pollCount>>

Cancel ==
  /\ emitted.cancel < MaxCancelCalls
  /\ status' = "cancel"
  /\ SetSched(TaskClear(Sched))
  /\ emitted' = [emitted EXCEPT !.cancel = @ + 1]
  /\ UNCHANGED <<size, pollMaxTimes, uploadCalls, target, pc, outcome, parts,
                 transferred, progress, pollCount, call, client>>

\* ------------------------------------------------------------------ the specification
Next ==
  \/ \E t \in Targets : Upload(t)
  \/ \E reuse \in BOOLEAN, fileID \in CreateFileIDs, sliceSize \in SliceSizes :
       (reuse => fileID # NoFileID) /\ CreateDone(reuse, fileID, sliceSize)
  \/ CreateFail
  \/ \E k \in 1..MaxChunks : ReadDone(k)
  \/ \E k \in 1..MaxChunks : ReadFail(k)
  \/ \E k \in 1..MaxChunks : UrlDone(k)
  \/ \E k \in 1..MaxChunks : UrlFail(k)
  \/ \E k \in 1..MaxChunks, n \in 1..MaxSliceSize : UploadProgress(k, n)
  \/ \E k \in 1..MaxChunks : PutDone(k)
  \/ \E k \in 1..MaxChunks : PutFail(k)
  \/ \E k \in 1..MaxChunks : PutAborted(k)
  \/ \E k \in 1..MaxChunks : RetryDelayDone(k)
  \/ \E a \in BOOLEAN, c \in BOOLEAN : FinishDone(a, c)
  \/ FinishFail
  \/ \E c \in BOOLEAN : CheckDone(c)
  \/ CheckFail
  \/ PollWaitDone
  \/ Pause
  \/ Resume
  \/ Cancel

Spec == Init /\ [][Next]_vars

\* A transport in which every request succeeds and the merge is confirmed by the
\* finish-upload response, and a caller who calls resume() right after pause(),
\* before any aborted transfer has settled.
NextPauseResume ==
  \/ \E t \in Targets : Upload(t)
  \/ \E reuse \in BOOLEAN, fileID \in CreateFileIDs, sliceSize \in SliceSizes :
       /\ status # "paused"
       /\ reuse => fileID # NoFileID
       /\ CreateDone(reuse, fileID, sliceSize)
  \/ \E k \in 1..MaxChunks : status # "paused" /\ ReadDone(k)
  \/ \E k \in 1..MaxChunks : status # "paused" /\ UrlDone(k)
  \/ \E k \in 1..MaxChunks, n \in 1..MaxSliceSize : status # "paused" /\ UploadProgress(k, n)
  \/ \E k \in 1..MaxChunks : status # "paused" /\ PutDone(k)
  \/ \E k \in 1..MaxChunks : status # "paused" /\ PutAborted(k)
  \/ \E a \in BOOLEAN, c \in BOOLEAN : status # "paused" /\ ~(a /\ ~c) /\ FinishDone(a, c)
  \/ Pause
  \/ Resume

SpecPauseResume == Init /\ [][NextPauseResume]_vars

\* The chunk planning on its own: a session constructed on a file of any size up to
\* MaxPlanSize, and the planning loop of uploadChunks run for any slice size up to
\* MaxPlanSliceSize.
InitPlan ==
  /\ status = "pending"
  /\ size \in 0..MaxPlanSize
  /\ pollMaxTimes = MaxPollTimes
  /\ pc = "init"
  /\ target = NoTarget
  /\ outcome = NoOutcome
  /\ chunkTasks = <<>>
  /\ step = <<>>
  /\ retryCount = <<>>
  /\ sent = <<>>
  /\ queue = <<>>
  /\ isPaused = FALSE
  /\ parts = [k \in 1..MaxChunks |-> 0]
  /\ transferred = {}
  /\ progress = [k \in 1..MaxChunks |-> 0]
  /\ pollCount = 0
  /\ emitted = [progressInit |-> 1, start |-> 0, completed |-> 0, error |-> 0,
                cancel |-> 0]
  /\ call = NoCall
  /\ uploadCalls = 0
  /\ client = IdleClient

\* this.chunkSize = sliceSize; chunks = Math.ceil(size / chunkSize); the planning loop
Plan(sliceSize) ==
  /\ pc = "init"
  /\ pc' = "chunks"
  /\ chunkTasks' = PlanChunks(size, sliceSize)
  /\ call' = [call EXCEPT !.sliceSize = sliceSize]
  /\ UNCHANGED <<status, size, pollMaxTimes, target, outcome, step, retryCount, sent,
                 queue, isPaused, parts, transferred, progress, pollCount, emitted,
                 uploadCalls, client>>

NextPlan == \E sliceSize \in 1..MaxPlanSliceSize : Plan(sliceSize)

SpecPlan == InitPlan /\ [][NextPlan]_vars

\* ------------------------------------------------------------------ Client.mkdirRecursive
\* the fields of the Uploader
uploaderVars ==
  <<status, size, pollMaxTimes, pc, target, outcome, chunkTasks, step, retryCount,
    sent, queue, isPaused, parts, transferred, progress, pollCount, emitted, call,
    uploadCalls>>

\* a Client alone: no upload() is ever called
InitMkdir ==
  /\ status = "pending"
  /\ size = 0
  /\ pollMaxTimes = MaxPollTimes
  /\ pc = "init"
  /\ target = NoTarget
  /\ outcome = NoOutcome
  /\ chunkTasks = <<>>
  /\ step = <<>>
  /\ retryCount = <<>>
  /\ sent = <<>>
  /\ queue = <<>>
  /\ isPaused = FALSE
  /\ parts = [k \in 1..MaxChunks |-> 0]
  /\ transferred = {}
  /\ progress = [k \in 1..MaxChunks |-> 0]
  /\ pollCount = 0
  /\ emitted = [progressInit |-> 1, start |-> 0, completed |-> 0, error |-> 0,
                cancel |-> 0]
  /\ call = NoCall
  /\ uploadCalls = 0
  /\ client = IdleClient

\* the id of the directory named by the component at place i, under parent
ChildID(parent, i) == Append(parent, i)

\* the for loop goes to its next component, or ends and returns currentID
NextComponent(c) ==
  IF c.index = c.paths
  THEN [c EXCEPT !.pc = "returned"]
  ELSE [c EXCEPT !.pc = "mkdir", !.index = @ + 1, !.lastFileId = 0]

\* mkdirRecursive(path), path holding n components: the first mkdir is requested
MkdirRecursive(n) ==
  /\ client.pc = "idle"
  /\ client' = NextComponent([client EXCEPT !.paths = n])
  /\ UNCHANGED uploaderVars

\* mkdir(p, currentID) succeeded: currentID = response.dirID
MkdirDone ==
  /\ client.pc = "mkdir"
  /\ LET id == ChildID(client.currentID, client.index)
     IN client' = NextComponent([client EXCEPT !.currentID = id,
                                               !.created = @ \cup {id}])
  /\ UNCHANGED uploaderVars

\* mkdir(p, currentID) failed; message tells which of the tests of the catch block
\* the error's message passes
MkdirFail(message) ==
  /\ client.pc = "mkdir"
  /\ client' =
       IF message = "invalid-name" THEN [client EXCEPT !.pc = "thrown"]
       ELSE IF message = "exists" THEN [client EXCEPT !.pc = "list", !.lastFileId = 0]
       ELSE NextComponent(client)
  /\ UNCHANGED uploaderVars

\* a page of getFileList arrived: found tells whether it holds the folder named p,
\* full whether it holds 100 entries
ListDone(found, full) ==
  /\ client.pc = "list"
  /\ full => client.lastFileId < MaxPages
  /\ client' =
       IF found
       THEN NextComponent([client EXCEPT
                             !.currentID = ChildID(client.currentID, client.index)])
       ELSE IF full THEN [client EXCEPT !.lastFileId = @ + 1]
       ELSE [client EXCEPT !.pc = "thrown"]
  /\ UNCHANGED uploaderVars

\* getFileList failed: the exception leaves mkdirRecursive
ListFail ==
  /\ client.pc = "list"
  /\ client' = [client EXCEPT !.pc = "thrown"]
  /\ UNCHANGED uploaderVars

NextMkdir ==
  \/ \E n \in 0..MaxPathLen : MkdirRecursive(n)
  \/ MkdirDone
  \/ \E message \in {"invalid-name", "exists", "other"} : MkdirFail(message)
  \/ \E found \in BOOLEAN, full \in BOOLEAN : ListDone(found, full)
  \/ ListFail

SpecMkdir == InitMkdir /\ [][NextMkdir]_vars

\* ------------------------------------------------------------------ the claims
RunningTasks == {k \in Chunks : chunkTasks[k].status = "running"}

PlannedChunks == 1..CeilDiv(size, call.sliceSize)

\* C1: on the non-reuse path the finish-upload request has been issued, or upload()
\* has returned its result (progress `complete` and `completed` emitted), only when
\* the byte transfer of every planned chunk 1..ceil(size/sliceSize) has succeeded.
C1_FinishOnlyAfterAllChunks ==
  (~call.reuse /\ (call.finish \/ outcome.kind = "result")) => transferred = PlannedChunks

\* the finish request went out for a file of MaxChunks chunks, all of them transferred
C1_Witness ==
  /\ call.finish
  /\ ~call.reuse
  /\ Len(chunkTasks) = MaxChunks
  /\ transferred = 1..MaxChunks
  /\ outcome.kind = "result"

\* C2: the number of chunk tasks whose status is running never exceeds the
\* configured concurrency.
C2_RunningAtMostConcurrency == Cardinality(RunningTasks) <= Concurrency

\* `concurrency` tasks are running, one of them in its retry delay, another task
\* waits in the queue
C2_Witness ==
  /\ Cardinality(RunningTasks) = Concurrency
  /\ \E k \in Chunks : step[k] = "delay"
  /\ queue # <<>>
  /\ status = "running"

\* C3: with a transport in which every request succeeds, and resume() called right
\* after each pause(), upload() settles only by resolving with the file id of an
\* uninterrupted run, the `completed` event having been emitted.
C3_PauseResumeCompletes ==
  pc = "done" =>
    /\ outcome = CompletedInfo(call.fileID, target)
    /\ emitted.completed = 1
    /\ emitted.error = 0

\* C4: a session emits at most one terminal event among completed, error and cancel
\* (stated for a session whose upload() was called and whose cancel() was called at
\* most once).
C4_OneTerminalEvent ==
  (uploadCalls >= 1 /\ emitted.cancel <= 1) =>
    emitted.completed + emitted.error + emitted.cancel <= 1

\* C5: once the session status is completed, error or cancel it never changes.
C5_TerminalStatusIsFinal ==
  [][(status \in TerminalStatus) => (status' = status)]_vars

\* C6: once cancel() was called no `error` event is emitted and upload() does not
\* reject.
C6_NoErrorAfterCancel ==
  [][emitted.cancel >= 1 =>
       /\ emitted'.error = emitted.error
       /\ outcome'.kind = "rejected" => outcome.kind = "rejected"]_vars

\* C7: a cancel() call on a session whose status is already terminal emits no
\* `cancel` event (stated for a session whose upload() was called).
C7_CancelIdempotent ==
  [][(uploadCalls >= 1 /\ status \in TerminalStatus) =>
       (emitted'.cancel = emitted.cancel)]_vars

\* C8: when the last of the retryTimes + 1 attempts of a chunk fails (its task
\* status becomes error) the session enters status error (stated for a session
\* that was not cancelled).
C8_ExhaustedRetriesEnterError ==
  [][\A k \in Chunks :
       (/\ emitted.cancel = 0
        /\ chunkTasks[k].status # "error"
        /\ k \in DOMAIN chunkTasks'
        /\ chunkTasks'[k].status = "error") => status' = "error"]_vars

\* C9: when the finish-upload response was asynchronous and incomplete and no
\* check-merge response reported completed (and no check-merge request failed),
\* upload() ends after exactly pollMaxTimes check-merge requests by failing the
\* session: status error, `error` emitted, upload() rejected (stated for a session
\* that was not cancelled).
C9_PollTimesOut ==
  (/\ pc = "done"
   /\ call.asyncPending
   /\ ~call.merged
   /\ ~call.checkFailed
   /\ emitted.cancel = 0) =>
    /\ call.checks = pollMaxTimes
    /\ status = "error"
    /\ emitted.error = 1
    /\ outcome.kind = "rejected"

C11_ZeroChunksFinishAtOnce ==
  (size = 0 /\ ~call.reuse /\ pc \in {"chunks", "finish", "poll", "pollwait"}) =>
    /\ chunkTasks = <<>>
    /\ ~call.url
    /\ ~call.put
    /\ call.finish

\* C12: when upload() ends by an exception (a failed create-task, finish-upload or
\* check-merge request, the poll budget running out, a chunk out of retries, the
\* chunk phase ending incomplete in status running) raised in a status other than
\* cancel, the status becomes error, exactly one `error` event is emitted and
\* upload() rejects; raised in status cancel, no `error` event is emitted, the
\* status stays cancel and upload() resolves with no result.
C12_ExceptionStep ==
  /\ pc \in {"create", "chunks", "finish", "poll"}
  /\ pc' = "done"
  /\ outcome'.kind # "result"
  /\ \/ pc # "chunks"
     \/ \E k \in Chunks : chunkTasks[k].status # "error" /\ chunkTasks'[k].status = "error"
     \/ status = "running"
     \/ status = "paused" /\ isPaused /\ ~isPaused'

C12_CatchReportsOrSwallows ==
  [][C12_ExceptionStep =>
       IF status = "cancel"
       THEN /\ emitted'.error = emitted.error
            /\ status' = "cancel"
            /\ outcome' = UndefinedOutcome
       ELSE /\ emitted'.error = emitted.error + 1
            /\ status' = "error"
            /\ outcome' = RejectedOutcome]_vars

\* a chunk ran out of retries after cancel(): the exception was swallowed
C12_Witness ==
  /\ pc = "done"
  /\ status = "cancel"
  /\ outcome = UndefinedOutcome
  /\ emitted.error = 0
  /\ \E k \in Chunks : chunkTasks[k].status = "error"

\* C13: the status becomes paused only from running, by pause(), which pauses the
\* queue and aborts the cancellation handle of every chunk task whose status is
\* running; and while the queue stays paused (until resume()) no chunk task that
\* is not running is started.
C13_PauseStopsTheQueue ==
  [][/\ (status # "paused" /\ status' = "paused") =>
          /\ status = "running"
          /\ isPaused'
          /\ \A k \in Chunks :
               chunkTasks[k].status = "running" => chunkTasks'[k].aborted
     /\ (isPaused /\ isPaused') =>
          \A k \in Chunks \cap DOMAIN step' : step[k] = "none" => step'[k] = "none"]_vars

\* paused, a task aborted by pause() has ended and freed its slot, and a task
\* still waits in the queue
C13_Witness ==
  /\ status = "paused"
  /\ isPaused
  /\ queue # <<>>
  /\ PendingCount(step) < Concurrency
  /\ \E k \in Chunks : chunkTasks[k].status = "abort" /\ chunkTasks[k].aborted

\* the jobs of chunk k the queue holds, waiting
InQueue(q, k) == \E i \in DOMAIN q : q[i] = k

\* chunk k is submitted: it waits in the queue or its uploadChunk run is under way
Submitted(q, st, k) == InQueue(q, k) \/ st[k] # "none"

\* C14: the queue is un-paused only by resume() called in status paused. That call
\* sets status running (upload() may go on from there in the same task), gives every
\* chunk task whose status is abort a fresh, non-aborted cancellation handle and
\* status pending (running once the queue has started it), submits exactly those
\* tasks to the queue again with their sequence number, offset and length
\* unchanged, and leaves every other task's handle and submission as they were.
C14_ResumeResubmitsAborted ==
  [][(isPaused /\ ~isPaused') =>
       /\ status = "paused"
       /\ status' = "running" \/ (pc = "chunks" /\ pc' = "done" /\ status' = "error")
       /\ DOMAIN chunkTasks' = DOMAIN chunkTasks
       /\ \A k \in Chunks :
            /\ chunkTasks'[k].start = chunkTasks[k].start
            /\ chunkTasks'[k].chunkSize = chunkTasks[k].chunkSize
            /\ IF chunkTasks[k].status = "abort"
               THEN /\ ~chunkTasks'[k].aborted
                    /\ chunkTasks'[k].status \in {"pending", "running"}
                    /\ ~Submitted(queue, step, k)
                    /\ Submitted(queue', step', k)
               ELSE /\ chunkTasks'[k].aborted = chunkTasks[k].aborted
                    /\ Submitted(queue', step', k) = Submitted(queue, step, k)
       /\ \A k \in Chunks :
            Cardinality({i \in DOMAIN queue' : queue'[i] = k}) <= 1]_vars

\* resume() has put an aborted task back: it waits in the queue, pending and with
\* a fresh handle, behind a task of a higher sequence number that already runs
C14_Witness ==
  /\ status = "running"
  /\ ~isPaused
  /\ \E k \in Chunks, j \in Chunks :
       /\ k < j
       /\ InQueue(queue, k)
       /\ chunkTasks[k].status = "pending"
       /\ ~chunkTasks[k].aborted
       /\ step[j] # "none"

\* C15: from a non-terminal status the session status changes only along the edges
\* pending->running, running->paused, paused->running, running->completed,
\* running->error, running->cancel, paused->cancel.
C15_StatusEdgesOnly ==
  [][(status \notin TerminalStatus /\ status' # status) =>
       <<status, status'>> \in
         {<<"pending", "running">>, <<"running", "paused">>, <<"paused", "running">>,
          <<"running", "completed">>, <<"running", "error">>, <<"running", "cancel">>,
          <<"paused", "cancel">>}]_vars

\* C16: while status is running, every `uploading` progress event carries a
\* `loaded` total that is at least the total of the progress event before it (no
\* pause() lies between two such events: pause() leaves status running), also
\* when the transfer of a chunk failed and is retried in between.
C16_LoadedNeverDecreases ==
  [][(status = "running" /\ status' = "running" /\ progress' # progress) =>
       TotalLoaded(progress') >= TotalLoaded(progress)]_vars

\* C17: `start` is emitted at most once, and whenever a progress event has been
\* emitted (that of phase `init` included) `start` has been emitted before it.
C17_StartOnceBeforeProgress ==
  /\ emitted.start <= 1
  /\ (emitted.progressInit >= 1 \/ call.uploading) => emitted.start >= 1

\* the chunk tasks whose byte range [start, start + chunkSize) holds byte b
Covering(b) ==
  {i \in Chunks : chunkTasks[i].start <= b /\ b < chunkTasks[i].start + chunkTasks[i].chunkSize}

\* C18: the planned chunk tasks number ceil(size / sliceSize) (0 for size 0), carry
\* the sequence numbers 1..count, their byte ranges lie within [0, size), and every
\* byte of the file lies in exactly one of them; every chunk has length sliceSize
\* except the last, whose length is size mod sliceSize, or sliceSize when that
\* remainder is 0.
C18_PlanTilesTheFile ==
  pc = "chunks" =>
    LET n == Len(chunkTasks)
        s == call.sliceSize
    IN /\ n * s >= size
       /\ n > 0 => (n - 1) * s < size
       /\ size = 0 => n = 0
       /\ Chunks = 1..n
       /\ \A i \in Chunks :
            /\ chunkTasks[i].start >= 0
            /\ chunkTasks[i].chunkSize > 0
            /\ chunkTasks[i].start + chunkTasks[i].chunkSize <= size
            /\ i < n => chunkTasks[i].chunkSize = s
            /\ i = n => chunkTasks[i].chunkSize = (IF size % s = 0 THEN s ELSE size % s)
       /\ \A b \in 0..(size - 1) : Cardinality(Covering(b)) = 1

\* a plan of several chunks whose last chunk is shorter than the slice size
C18_Witness ==
  /\ pc = "chunks"
  /\ Len(chunkTasks) >= 3
  /\ call.sliceSize >= 2
  /\ size % call.sliceSize # 0
  /\ chunkTasks[Len(chunkTasks)].chunkSize < call.sliceSize

\* C19: every failed attempt of a chunk upload that is then retried is reported by
\* a `debug` event, whichever step of the attempt failed: no failed attempt is
\* retried with no `debug` event emitted for it.
C19_RetriesAreReported == ~call.silentRetry

\* C20: while the session status is cancel (cancel() was called and upload() was
\* not called again) no chunk-destination request and no chunk byte transfer is
\* started.
C20_NoChunkRequestAfterCancel ==
  [][(status = "cancel" /\ status' = "cancel") =>
       \A k \in DOMAIN step' :
         step'[k] \in {"url", "put"} => (k \in DOMAIN step /\ step[k] = step'[k])]_vars

\* the handle of chunk k was aborted by pause(): no cancel() was called and no
\* chunk failure has run taskClear
AbortedByPause(k) ==
  /\ chunkTasks[k].aborted
  /\ emitted.cancel = 0
  /\ \A j \in Chunks : chunkTasks[j].status # "error"

\* C21: a chunk upload operation whose handle was aborted by pause() is not run
\* again under that handle once its attempt has failed (no retry), ends with task
\* status abort, and its steps never emit `error` or make the session enter status
\* error.
C21_AbortedChunkJustStops ==
  [][\A k \in Chunks :
       (AbortedByPause(k) /\ step[k] # "none" /\ step'[k] # step[k]) =>
         /\ ~(step[k] = "delay" /\ step'[k] = "read")
         /\ step'[k] = "none" => chunkTasks'[k].status = "abort"
         /\ emitted'.error = emitted.error
         /\ status' # "error"]_vars

\* C22: when a chunk upload fails with its retries exhausted (its task status
\* becomes error) no queued chunk task is started in that step or left in the
\* queue, the handle of every chunk task is aborted, and, when it is the first
\* chunk to fail, the session status becomes error, one `error` event is emitted
\* and upload() rejects; a later failing chunk emits no further `error` (stated
\* for a session that was not cancelled).
C22_FirstChunkFailureEndsSession ==
  [][\A k \in Chunks :
       (/\ emitted.cancel = 0
        /\ chunkTasks[k].status # "error"
        /\ k \in DOMAIN chunkTasks'
        /\ chunkTasks'[k].status = "error") =>
         /\ queue' = <<>>
         /\ \A j \in Chunks : step[j] = "none" => step'[j] = "none"
         /\ \A j \in Chunks : chunkTasks'[j].aborted
         /\ status' = "error"
         /\ IF \A j \in Chunks : chunkTasks[j].status # "error"
            THEN /\ emitted'.error = emitted.error + 1
                 /\ outcome' = RejectedOutcome
            ELSE emitted'.error = emitted.error]_vars

\* the chunk tasks whose status is completed
CompletedTasks(tasks) == {k \in DOMAIN tasks : tasks[k].status = "completed"}

\* C23: when the queue becomes idle and ends the chunk phase of upload() (no chunk
\* failed in that step): with every planned chunk completed upload() goes on to the
\* finish-upload request; with chunks planned and none completed upload() ends
\* without a result; with some but not all chunks completed upload() ends
\* incomplete without error: no `error` event, status not error.
C23_IdleResolution ==
  [][(/\ pc = "chunks"
      /\ pc' # "chunks"
      /\ \A k \in Chunks : chunkTasks'[k].status = "error" => chunkTasks[k].status = "error") =>
       LET done == Cardinality(CompletedTasks(chunkTasks'))
           n == Len(chunkTasks)
       IN /\ done = n => pc' = "finish"
          /\ (n > 0 /\ done = 0) => (pc' = "done" /\ outcome'.kind # "result")
          /\ (0 < done /\ done < n) =>
               /\ pc' = "done"
               /\ outcome' = UndefinedOutcome
               /\ emitted'.error = emitted.error
               /\ status' # "error"]_vars

\* C24: when resume() has run (the queue is un-paused), every chunk task that is
\* not completed holds a handle that is not aborted.
C24_FreshHandlesAfterResume ==
  [][(isPaused /\ ~isPaused') =>
       \A k \in DOMAIN chunkTasks' :
         chunkTasks'[k].status # "completed" => ~chunkTasks'[k].aborted]_vars

C26_FailedCheckEndsPolling ==
  [][/\ (pc = "poll" /\ ~call.checkFailed /\ call'.checkFailed) =>
          /\ pc' = "done"
          /\ call'.checks = call.checks
          /\ status # "cancel" =>
               /\ status' = "error"
               /\ outcome' = RejectedOutcome
               /\ emitted'.error = emitted.error + 1
     /\ (call.checkFailed /\ call'.checkFailed) =>
          /\ call'.checks = call.checks
          /\ pc' = "done"]_vars

\* a check-merge request failed with poll budget left: the session is in status
\* error
C26_Witness ==
  /\ call.checkFailed
  /\ call.checks >= 1
  /\ call.checks < pollMaxTimes
  /\ pc = "done"
  /\ status = "error"
  /\ outcome = RejectedOutcome

\* C27: on the non-reuse path upload() returns its result (`completed` emitted)
\* only if the server confirmed the merge: the finish-upload response was not
\* asynchronous-and-incomplete, or a check-merge response reported completed.
C27_CompletedOnlyAfterMerge ==
  (outcome.kind = "result" /\ ~call.reuse) => (~call.asyncPending \/ call.merged)

\* C28: after cancel(), an upload() call that waits for the chunks of a file of at
\* least one chunk is never left with nothing that can end its wait: some chunk
\* operation is still under way, whose end makes the queue idle and settles the
\* call.
C28_CancelLeavesSomethingToSettle ==
  (status = "cancel" /\ pc = "chunks" /\ Len(chunkTasks) > 0) => PendingCount(step) > 0

\* C29: when upload() completes on the non-reuse path the fileId it returns and
\* `completed` carries is the file id of the finish-upload (or check-merge)
\* response.
C29_ResultIsFinalFileId ==
  (outcome.kind = "result" /\ ~call.reuse) => outcome.fileId = FinishFileID

\* the id of the directory the first n components of the path name
PathID(n) == [i \in 1..n |-> i]

\* C30: when mkdirRecursive(path) returns, it returns the id of the directory
\* named by the whole path, and every directory it created is named by a leading
\* part of the path: no component was created under the parent of a component
\* that could not be created.
C30_MkdirRecursiveReturnsLeaf ==
  /\ client.pc = "returned" => client.currentID = PathID(client.paths)
  /\ \A id \in client.created : id = PathID(Len(id))

====
